---------------------------- MODULE Spec2Model ----------------------------
(***************************************************************************)
(* A model of the asteroid impact simulator: the physics stages of         *)
(* src/backend/simulation.py (ImpactSimulator) and the request handler of  *)
(* src/api/simulation.py (handler.simulate_impact, handler.classify_impact)*)
(* with the HTTP entry points of src/api/simulation.py and                 *)
(* src/api/asteroids.py (do_GET, do_POST, get_asteroids,                   *)
(* get_hazardous_asteroids).                                               *)
(*                                                                         *)
(* Numbers.  The Python code computes with floats whose values range over  *)
(* some thirty decades and are combined by products, quotients and         *)
(* fractional powers.  The model keeps such a real x as a record           *)
(*     [sgn |-> -1 | 0 | 1, lg |-> fixed-point log2 |x|]                   *)
(* (a logarithmic number system): lg counts units of 1/Unit of a binade.   *)
(* A product adds the lg fields, a power scales them, a comparison         *)
(* compares them.  ToLog computes lg for a positive integer by the         *)
(* shift-and-square algorithm, so every constant of the code (9.81, 2700,  *)
(* 4.184e9, ...) enters the model through the same conversion as the       *)
(* inputs.  math.log10 and int() are conversions out of this               *)
(* representation (MathLog10, ToInt).                                      *)
(* Quantities the code truncates to integers from small inputs (the        *)
(* casualty stage) are kept in decimal fixed point instead.                *)
(***************************************************************************)
EXTENDS Integers, Sequences, FiniteSets, TLC

VARIABLES call, ret, prev

vars == <<call, ret, prev>>

---------------------------------------------------------------------------
(* Bounds of the model *)

\* fractional bits of lg (the precision of the number representation)
FracBits == 12
\* seismic energies range over m * 10^e joules, e in 0..MaxEnergyDecade
MaxEnergyDecade == 32
\* overpressure radii range over 0..MaxRadiusTenths tenths of a km
MaxRadiusTenths == 24

---------------------------------------------------------------------------
(* The number representation *)

Unit == 2^FracBits
\* the mantissa of ToLog is kept with 14 fractional bits: its square fits 32 bits
MantUnit == 2^14

RECURSIVE FloorLog2(_)
FloorLog2(n) == IF n < 2 THEN 0 ELSE 1 + FloorLog2(n \div 2)

\* n scaled into [MantUnit, 2*MantUnit)
Mantissa(n) ==
    LET e == FloorLog2(n)
    IN  IF e >= 14 THEN n \div 2^(e - 14) ELSE n * 2^(14 - e)

\* the first k fractional bits of log2(y / MantUnit), by repeated squaring
RECURSIVE FracLog2(_, _)
FracLog2(y, k) ==
    IF k = 0 THEN 0
    ELSE LET sq == (y * y) \div MantUnit
         IN  IF sq >= 2 * MantUnit
             THEN 2^(k - 1) + FracLog2(sq \div 2, k - 1)
             ELSE FracLog2(sq, k - 1)

\* fixed-point log2 of a positive integer
ToLog(n) == FloorLog2(n) * Unit + FracLog2(Mantissa(n), FracBits)

Zero == [sgn |-> 0, lg |-> 0]

Abs(n) == IF n < 0 THEN -n ELSE n
Sign(n) == IF n < 0 THEN -1 ELSE IF n = 0 THEN 0 ELSE 1

\* an integer as a number
Num(n) == IF n = 0 THEN Zero ELSE [sgn |-> Sign(n), lg |-> ToLog(Abs(n))]

\* the decimal literal m * 10^e (4.184e9 is Dec(4184, 6))
Dec(m, e) == IF m = 0 THEN Zero
             ELSE [sgn |-> Sign(m), lg |-> ToLog(Abs(m)) + e * ToLog(10)]

Mul(a, b) == IF a.sgn = 0 \/ b.sgn = 0 THEN Zero
             ELSE [sgn |-> a.sgn * b.sgn, lg |-> a.lg + b.lg]

\* a / b for b # 0 (the callers raise ZeroDivisionError before dividing by 0)
Div(a, b) == IF a.sgn = 0 THEN Zero
             ELSE [sgn |-> a.sgn * b.sgn, lg |-> a.lg - b.lg]

\* a ** k for an integer k >= 1
PowInt(a, k) == IF a.sgn = 0 THEN Zero
                ELSE [sgn |-> IF k % 2 = 0 THEN 1 ELSE a.sgn, lg |-> k * a.lg]

\* a ** (p/q) for a >= 0, q > 0 (0 ** positive is 0)
PowFrac(a, p, q) == IF a.sgn = 0 THEN Zero
                    ELSE [sgn |-> 1, lg |-> (a.lg * p) \div q]

\* a < b
Less(a, b) ==
    IF a.sgn # b.sgn THEN a.sgn < b.sgn
    ELSE IF a.sgn = 1 THEN a.lg < b.lg
    ELSE IF a.sgn = -1 THEN a.lg > b.lg
    ELSE FALSE

Leq(a, b) == ~Less(b, a)

\* min(a, b) of Python: the first of the two unless the second is smaller
Min(a, b) == IF Less(b, a) THEN b ELSE a

\* math.log10(x) in thousandths, for x > 0
Log10Milli(x) == (x.lg * 1000) \div ToLog(10)

\* int(x) for 0 <= x < 2^30: the largest integer not exceeding x
RECURSIVE IntSearch(_, _, _)
IntSearch(x, lo, hi) ==
    IF lo = hi THEN lo
    ELSE LET mid == (lo + hi + 1) \div 2
         IN  IF Leq(Num(mid), x) THEN IntSearch(x, mid, hi)
             ELSE IntSearch(x, lo, mid - 1)

ToInt(x) == IF x.sgn <= 0 THEN 0 ELSE IntSearch(x, 0, 2^30)


---------------------------------------------------------------------------
(* Program constants *)

\* math.pi as the rational PiNum / PiDen
PiNum == 355
PiDen == 113
Pi == Div(Num(PiNum), Num(PiDen))

\* ImpactSimulator.TNT_JOULES = 4.184e9
TNT_JOULES == Dec(4184, 6)

---------------------------------------------------------------------------
(* The state: the operation invoked with its arguments, what it returned,  *)
(* and the preceding invocation when two invocations are compared.         *)
(* The engine itself keeps no state between invocations.                   *)

NoCall == [fn |-> "none", size |-> 0, diameter |-> 0, density |-> 0,
           velocity |-> 0, angle |-> 0, is_water |-> FALSE,
           target_is_water |-> FALSE, energy |-> Zero,
           overpressure_radius |-> 0, population_density |-> 0,
           path |-> "none", body |-> "none", nasa |-> "none",
           feed |-> <<>>, browse |-> <<>>]

\* status is "ok" for a normal return and the exception's name otherwise;
\* results is the set of keys of the "results" object of an API response;
\* sent is the sequence of HTTP statuses passed to send_response, in order
NoRet == [status |-> "none", results |-> {},
          energy_joules |-> Zero, energy_megatons |-> Zero,
          ablation_fraction |-> 0, angle_factor |-> Zero,
          transient_radius |-> Zero, collapse |-> "none",
          diameter |-> Zero, depth |-> Zero,
          magnitude |-> 0, radius |-> 0,
          wave_height |-> Zero, affected_radius |-> Zero,
          estimated_casualties |-> 0, affected_population |-> 0,
          crater_diameter_m |-> Zero, damage_radius_km |-> Zero,
          impact_classification |-> "none",
          sent |-> <<>>, count |-> 0, asteroids |-> <<>>,
          source |-> "none", error |-> "none"]

NoPrev == [call |-> NoCall, ret |-> NoRet]

---------------------------------------------------------------------------
(* ImpactSimulator.calculate_seismic_effects *)

\* math.log10: ValueError (math domain error) unless x > 0; val in thousandths
MathLog10(x) == IF x.sgn <= 0 THEN [err |-> "ValueError", val |-> 0]
                ELSE [err |-> "", val |-> Log10Milli(x)]

\* seismic_energy = energy_joules * seismic_efficiency, seismic_efficiency = 1e-5
SeismicEnergy(energy_joules) == Mul(energy_joules, Dec(1, -5))

\* NonPositive with the guard written < for <= (to test sensitivity)
StrictlyNegative(x) == Less(x, Zero)

\* the pre-check "if seismic_energy <= 0"
NonPositive(x) == Leq(x, Zero)

IMin(a, b) == IF b < a THEN b ELSE a
IMax(a, b) == IF b > a THEN b ELSE a

\* magnitude = max(0, min(magnitude, 10)), in thousandths
ClampMagnitude(m) == IMax(0, IMin(m, 10000))

\* magnitude in thousandths: (log10(seismic_energy) - 5.87) / 1.5, clamped
SeismicMagnitude(seismic_energy) ==
    IF NonPositive(seismic_energy)
    THEN [err |-> "", val |-> 0]
    ELSE LET l == MathLog10(seismic_energy)
         IN  IF l.err # "" THEN l
             ELSE [err |-> "", val |-> ClampMagnitude(((l.val - 5870) * 10) \div 15)]

\* FeltRadius with the offset of the regime [5, 7) written 4 for 3 (to test
\* sensitivity)
FeltRadiusShifted(magnitude) ==
    IF magnitude < 3000 THEN 10 * 1000
    ELSE IF magnitude < 5000 THEN 50 * (magnitude - 2000)
    ELSE IF magnitude < 7000 THEN 100 * (magnitude - 4000)
    ELSE IMin(2000 * 1000, 300 * (magnitude - 5000))

\* affected radius in thousandths of a km, from the magnitude in thousandths
FeltRadius(magnitude) ==
    IF magnitude < 3000 THEN 10 * 1000
    ELSE IF magnitude < 5000 THEN 50 * (magnitude - 2000)
    ELSE IF magnitude < 7000 THEN 100 * (magnitude - 3000)
    ELSE IMin(2000 * 1000, 300 * (magnitude - 5000))

calculate_seismic_effects(energy_joules) ==
    LET m == SeismicMagnitude(SeismicEnergy(energy_joules))
    IN  IF m.err # "" THEN [NoRet EXCEPT !.status = m.err]
        ELSE [NoRet EXCEPT !.status = "ok", !.magnitude = m.val,
                           !.radius = FeltRadius(m.val)]

---------------------------------------------------------------------------
(* ImpactSimulator.calculate_tsunami_effects *)

\* the function takes the energy alone and returns a pair for every energy
\* it can compute with; a negative energy makes (energy_mt / 1000) ** 0.25
\* a complex number, which min() cannot order (TypeError)
calculate_tsunami_effects(energy_mt) ==
    IF energy_mt.sgn < 0 THEN [NoRet EXCEPT !.status = "TypeError"]
    ELSE [NoRet EXCEPT
            !.status = "ok",
            !.wave_height =
                Min(Mul(PowFrac(Div(energy_mt, Num(1000)), 25, 100), Num(10)),
                    Num(500)),
            !.affected_radius =
                Min(Mul(PowFrac(energy_mt, 1, 2), Num(15)), Num(10000))]

---------------------------------------------------------------------------
(* ImpactSimulator.estimate_casualties *)

\* IntOf rounding to nearest instead of truncating (to test sensitivity)
RoundOf(num, den) == (2 * num + den) \div (2 * den)

\* int(num / den) for num >= 0, den > 0
IntOf(num, den) == num \div den

\* int(affected_area * population_density), affected_area = pi * radius ** 2,
\* for a radius of r tenths of a km
AffectedPopulation(r, population_density) ==
    IntOf(PiNum * r * r * population_density, PiDen * 100)

\* int(affected_population * casualty_rate), casualty_rate = 0.5
Casualties(affected_population) == IntOf(affected_population * 5, 10)

\* estimate_casualties with the returned pair in the other order
\* (to test sensitivity)
estimate_casualties_swapped(r, population_density) ==
    LET p == AffectedPopulation(r, population_density)
    IN  [NoRet EXCEPT !.status = "ok", !.estimated_casualties = p,
                      !.affected_population = Casualties(p)]

estimate_casualties(r, population_density) ==
    LET p == AffectedPopulation(r, population_density)
    IN  [NoRet EXCEPT !.status = "ok", !.estimated_casualties = Casualties(p),
                      !.affected_population = p]


---------------------------------------------------------------------------
(* ImpactSimulator.calculate_impact_energy *)

\* the scale of the fixed-point sine
SinScale == 10^4

\* a / b rounded to nearest, for a >= 0, b > 0
RDiv(a, b) == (2 * a + b) \div (2 * b)

\* math.sin(math.radians(angle)) * SinScale for 0 <= angle <= 90 degrees,
\* by the Taylor polynomial of degree 9 in Horner form
SinFix(angle) ==
    LET x  == RDiv(angle * PiNum * SinScale, PiDen * 180)
        x2 == RDiv(x * x, SinScale)
        t4 == SinScale - RDiv(x2, 72)
        t3 == SinScale - RDiv(RDiv(x2 * t4, SinScale), 42)
        t2 == SinScale - RDiv(RDiv(x2 * t3, SinScale), 20)
        t1 == SinScale - RDiv(RDiv(x2 * t2, SinScale), 6)
    IN  RDiv(x * t1, SinScale)

\* angle_factor = math.sin(math.radians(angle))
AngleFactor(angle) == Dec(SinFix(angle), -4)

\* AblationFraction with the band limits compared by <= (to test sensitivity)
AblationFractionInclusive(size) ==
    IF size <= 50 THEN 90
    ELSE IF size <= 100 THEN 70
    ELSE IF size <= 500 THEN 30
    ELSE 10

\* ablation_fraction in hundredths
AblationFraction(size) ==
    IF size < 50 THEN 90
    ELSE IF size < 100 THEN 70
    ELSE IF size < 500 THEN 30
    ELSE 10

\* volume * density, volume = (4 / 3) * math.pi * (radius ** 3)
SphereMass(radius, density) ==
    Mul(Mul(Mul(Div(Num(4), Num(3)), Pi), PowInt(radius, 3)), density)

\* energy / (TNT_JOULES * 1e6)
Megatons(energy_joules) == Div(energy_joules, Mul(TNT_JOULES, Dec(1, 6)))

calculate_impact_energy(size, density, velocity, angle) ==
    LET radius == Div(Num(size), Num(2))
        mass == SphereMass(radius, Num(density))
        velocity_ms == Mul(Num(velocity), Num(1000))
        ablation_fraction == AblationFraction(size)
        angle_factor == AngleFactor(angle)
        effective_mass == Mul(mass, Dec(100 - ablation_fraction, -2))
        energy_joules ==
            Mul(Mul(Mul(Dec(5, -1), effective_mass), PowInt(velocity_ms, 2)),
                angle_factor)
    IN  [NoRet EXCEPT !.status = "ok",
                      !.ablation_fraction = ablation_fraction,
                      !.angle_factor = angle_factor,
                      !.energy_joules = energy_joules,
                      !.energy_megatons = Megatons(energy_joules)]

---------------------------------------------------------------------------
(* ImpactSimulator.calculate_crater_size *)

\* gravity = 9.81
GRAVITY == Dec(981, -2)

TargetDensity(is_water) == IF is_water THEN Num(1000) ELSE Num(2700)

\* IsComplex with the comparison turned round (to test sensitivity)
IsComplexInverted(transient_radius) == Less(transient_radius, Num(2000))

\* "if transient_radius > 2000": a complex crater
IsComplex(transient_radius) == Less(Num(2000), transient_radius)

\* the rim collapse: * 1.25 for a complex crater, * 1.0 for a simple one
Collapse(transient_radius) ==
    IF IsComplex(transient_radius) THEN Mul(transient_radius, Dec(125, -2))
    ELSE Mul(transient_radius, Dec(10, -1))

\* ClampRadius without the clamp (to test sensitivity)
Unclamped(final_radius, max_radius) == final_radius

\* final_radius = min(final_radius, max_radius)
ClampRadius(final_radius, max_radius) == Min(final_radius, max_radius)

\* Depth with the limit of the transient radius, 2000, taken for the limit of
\* the diameter (to test sensitivity)
DepthByRadiusLimit(diameter) ==
    Div(diameter, IF Less(Num(2000), diameter) THEN Num(8) ELSE Num(5))

\* depth = diameter / (8 if diameter > 4000 else 5)
Depth(diameter) ==
    Div(diameter, IF Less(Num(4000), diameter) THEN Num(8) ELSE Num(5))

\* the transient crater radius of the pi-group scaling law
TransientRadius(projectile_radius, density_ratio, gravity_term, strength_term, is_water) ==
    IF is_water
    THEN Mul(Mul(Mul(projectile_radius, Dec(80, -1)),
                 PowFrac(density_ratio, 44, 100)),
             PowFrac(gravity_term, 22, 100))
    ELSE Mul(Mul(Mul(Mul(projectile_radius, Dec(16, -1)),
                     PowFrac(density_ratio, 44, 100)),
                 PowFrac(gravity_term, 22, 100)),
             PowFrac(strength_term, -11, 100))

\* for size >= 0, density >= 0, velocity >= 0; size = 0 divides by zero in
\* gravity_term
calculate_crater_size(size, density, velocity, is_water) ==
    IF size = 0 THEN [NoRet EXCEPT !.status = "ZeroDivisionError"]
    ELSE
    LET projectile_radius == Div(Num(size), Num(2))
        velocity_ms == Mul(Num(velocity), Num(1000))
        target_density == TargetDensity(is_water)
        target_strength == IF is_water THEN Zero ELSE Dec(1, 7)
        density_ratio == Div(Num(density), target_density)
        L == Mul(Mul(GRAVITY, projectile_radius), Num(2))
        gravity_term == Div(PowInt(velocity_ms, 2), L)
        strength_term == IF is_water THEN Num(1)
                         ELSE Div(target_strength, Mul(target_density, L))
        transient_radius ==
            TransientRadius(projectile_radius, density_ratio, gravity_term,
                            strength_term, is_water)
        max_radius == Mul(projectile_radius, Num(50))
        final_radius == ClampRadius(Collapse(transient_radius), max_radius)
        diameter == Mul(final_radius, Num(2))
    IN  [NoRet EXCEPT !.status = "ok",
                      !.transient_radius = transient_radius,
                      !.collapse = IF IsComplex(transient_radius) THEN "1.25"
                                   ELSE "1.0",
                      !.diameter = diameter,
                      !.depth = Depth(diameter)]

---------------------------------------------------------------------------
(* handler.simulate_impact and handler.classify_impact (src/api) *)

classify_impact(energy_megatons) ==
    IF Less(energy_megatons, Dec(1, -3)) THEN "Minimal damage"
    ELSE IF Less(energy_megatons, Dec(1, -1))
         THEN "Local damage (building destruction)"
    ELSE IF Less(energy_megatons, Num(10)) THEN "City-wide damage"
    ELSE IF Less(energy_megatons, Num(1000)) THEN "Regional devastation"
    ELSE IF Less(energy_megatons, Num(100000)) THEN "Continental impact"
    ELSE IF Less(energy_megatons, Num(100000000)) THEN "Global climate effects"
    ELSE "Mass extinction event"

\* the keys of the "results" object the handler returns
ResultKeys == {"mass_kg", "kinetic_energy_joules", "tnt_equivalent_tons",
               "energy_megatons", "crater_diameter_m", "damage_radius_km",
               "estimated_casualties", "affected_population",
               "impact_classification"}

\* kinetic_energy = 0.5 * mass * velocity_ms**2: the angle does not enter
KineticEnergy(diameter, density, velocity, angle) ==
    Mul(Mul(Dec(5, -1), SphereMass(Div(Num(diameter), Num(2)), Num(density))),
        PowInt(Mul(Num(velocity), Num(1000)), 2))

\* population_affected = int(damage_radius_km**2 * math.pi * 1000)
\*                       if damage_radius_km > 0 else 0
PopulationAffected(damage_radius_km) ==
    IF Less(Zero, damage_radius_km)
    THEN ToInt(Mul(Mul(PowInt(damage_radius_km, 2), Pi), Num(1000)))
    ELSE 0

\* the handler reads diameter, velocity, angle, density and target_location
\* from the request and nothing else; it checks none of them
simulate_impact(diameter, velocity, angle, density) ==
    LET kinetic_energy == KineticEnergy(diameter, density, velocity, angle)
        tnt_equivalent == Div(kinetic_energy, TNT_JOULES)
        energy_megatons == Div(tnt_equivalent, Dec(1, 6))
        crater_diameter ==
            IF Less(Zero, energy_megatons)
            THEN Mul(Dec(1161, -3), PowFrac(energy_megatons, 22, 100))
            ELSE Zero
        damage_radius_km ==
            IF Less(Zero, energy_megatons)
            THEN Mul(Dec(28, -2), PowFrac(energy_megatons, 1, 3))
            ELSE Zero
        population_affected == PopulationAffected(damage_radius_km)
        estimated_casualties ==
            IF population_affected > 0 THEN Casualties(population_affected)
            ELSE 0
    IN  [NoRet EXCEPT !.status = "ok",
                      !.results = ResultKeys,
                      !.energy_joules = kinetic_energy,
                      !.energy_megatons = energy_megatons,
                      !.crater_diameter_m = crater_diameter,
                      !.damage_radius_km = damage_radius_km,
                      !.estimated_casualties = estimated_casualties,
                      !.affected_population = population_affected,
                      !.impact_classification = classify_impact(energy_megatons)]

---------------------------------------------------------------------------
(* src/api/asteroids.py: handler.get_asteroids, get_hazardous_asteroids *)

\* asteroids[:50]
ListLimit == 50

\* An object of the feed is kept as its id, whether it carries
\* estimated_diameter.kilometers.estimated_diameter_max, and that value
\* (in metres).  The sort key:
\* x.get("estimated_diameter", {}).get("kilometers", {})
\*  .get("estimated_diameter_max", 0)
SizeKey(x) == IF x.has_max THEN x.estimated_diameter_max ELSE 0

\* for date_key, date_asteroids in ...items(): asteroids.extend(date_asteroids)
RECURSIVE Flatten(_)
Flatten(near_earth_objects) ==
    IF near_earth_objects = <<>> THEN <<>>
    ELSE Head(near_earth_objects) \o Flatten(Tail(near_earth_objects))

\* list.sort(key = ..., reverse = True) is stable: the place of the i-th
\* object is after every object with a larger key and after the objects
\* before it with the same key
PlaceBySize(asteroids, i) ==
    Cardinality({j \in DOMAIN asteroids :
                    SizeKey(asteroids[j]) > SizeKey(asteroids[i])})
        + Cardinality({j \in 1..i :
                          SizeKey(asteroids[j]) = SizeKey(asteroids[i])})

\* the place without reverse = True (smallest first)
PlaceBySizeAscending(asteroids, i) ==
    Cardinality({j \in DOMAIN asteroids :
                    SizeKey(asteroids[j]) < SizeKey(asteroids[i])})
        + Cardinality({j \in 1..i :
                          SizeKey(asteroids[j]) = SizeKey(asteroids[i])})

\* the sort without reverse = True (to test sensitivity)
SortAscending(asteroids) ==
    LET place == [i \in DOMAIN asteroids |->
                     PlaceBySizeAscending(asteroids, i)]
    IN  [p \in DOMAIN asteroids |->
            asteroids[CHOOSE i \in DOMAIN asteroids : place[i] = p]]

\* asteroids.sort(key = ..., reverse = True)
SortBySize(asteroids) ==
    LET place == [i \in DOMAIN asteroids |-> PlaceBySize(asteroids, i)]
    IN  [p \in DOMAIN asteroids |->
            asteroids[CHOOSE i \in DOMAIN asteroids : place[i] = p]]

\* asteroids[:limit]
Slice(asteroids, limit) == SubSeq(asteroids, 1, IMin(limit, Len(asteroids)))

\* the one object of the fallback payload: "sample_1", 0.2 km
SampleAsteroid == [id |-> 0, has_max |-> TRUE, estimated_diameter_max |-> 200]

\* nasa is the outcome of requests.get: "200", another status, or "timeout"
\* (requests.get raises).  Every exception is caught and answered with the
\* fallback payload; a status other than 200 is answered with an error
\* object without asteroids.
get_asteroids(nasa, feed) ==
    IF nasa = "200"
    THEN LET asteroids == SortBySize(Flatten(feed))
         IN  [NoRet EXCEPT !.status = "ok",
                           !.count = Len(asteroids),
                           !.asteroids = Slice(asteroids, ListLimit),
                           !.source = "NASA NeoWs API"]
    ELSE IF nasa = "timeout"
    THEN [NoRet EXCEPT !.status = "ok",
                       !.count = 3,
                       !.asteroids = <<SampleAsteroid>>,
                       !.source = "Fallback data (NASA API unavailable)",
                       !.error = "NASA API Error"]
    ELSE [NoRet EXCEPT !.status = "ok", !.error = "NASA API error"]

\* nothing is caught here: requests.get raising, or a status other than 200
\* (raise Exception), leaves the function by an exception
get_hazardous_asteroids(nasa, browse) ==
    IF nasa = "200"
    THEN [NoRet EXCEPT !.status = "ok",
                       !.count = Len(browse),
                       !.asteroids = browse,
                       !.source = "NASA NeoWs API - PHAs only"]
    ELSE [NoRet EXCEPT !.status = "Exception"]

---------------------------------------------------------------------------
(* The HTTP entry points: do_GET of src/api/asteroids.py, do_GET and      *)
(* do_POST of src/api/simulation.py                                       *)

\* the except clause: send_response(500) after whatever was sent before
Fail(sent, exception) ==
    [NoRet EXCEPT !.status = exception, !.sent = Append(sent, 500)]

\* the statuses sent once the body of the try block has produced response
Respond(sent, response) ==
    IF response.status = "ok" THEN [response EXCEPT !.sent = sent]
    ELSE Fail(sent, response.status)

\* "potentially-hazardous" in path
HazardousPaths == {"/api/asteroids/potentially-hazardous"}

\* asteroids.py do_GET: send_response(200) and the headers come first, the
\* listing is fetched afterwards
asteroids_do_GET(path, nasa, feed, browse) ==
    Respond(<<200>>,
            IF path \in HazardousPaths
            THEN get_hazardous_asteroids(nasa, browse)
            ELSE get_asteroids(nasa, feed))

\* "presets" in self.path
PresetPaths == {"/api/simulation/presets"}

\* simulation.py do_GET: 200, then the presets or a usage message
simulation_do_GET(path) ==
    Respond(<<200>>,
            [NoRet EXCEPT !.status = "ok",
                          !.source = IF path \in PresetPaths THEN "presets"
                                     ELSE "message"])

\* simulation.py do_POST.  The body is read and parsed before anything is
\* sent: a request without Content-Length (int(None)) or with a body that
\* is not JSON fails there.  Then 200 and the headers are sent, and only
\* then simulate_impact runs: a JSON body that is not an object
\* (request_data.get) or holds a string for a number (diameter / 2) fails
\* after the 200.
do_POST(body, diameter, velocity, angle, density) ==
    IF body = "no_content_length" THEN Fail(<<>>, "TypeError")
    ELSE IF body = "malformed_json" THEN Fail(<<>>, "JSONDecodeError")
    ELSE Respond(<<200>>,
                 IF body = "array"
                 THEN [NoRet EXCEPT !.status = "AttributeError"]
                 ELSE IF body = "string_field"
                 THEN [NoRet EXCEPT !.status = "TypeError"]
                 ELSE simulate_impact(diameter, velocity, angle, density))

---------------------------------------------------------------------------
(* The inputs *)

\* request fields of the API: metres, km/s, degrees, kg/m3.  The handler
\* checks nothing, so non-positive sizes and speeds and angles outside
\* (0, 90] are requests it can receive.  The presets of
\* get_simulation_presets are among them.
ApiDiameters == {-10, 0, 20, 50, 100, 500, 10000}
ApiVelocities == {-5, 0, 15, 20, 25}
ApiAngles == {-10, 0, 18, 45, 60, 90, 120}
ApiDensities == {2600, 8000}

\* arguments of calculate_impact_energy: sizes around the three band limits
EnergySizes == {1, 49, 50, 51, 99, 100, 101, 499, 500, 501, 10000}
EnergyDensities == {2600, 8000}
EnergyVelocities == {0, 20}
EnergyAngles == {0, 18, 45, 60, 90}

\* arguments of calculate_crater_size
CraterSizes == {0, 20, 100, 200, 500, 10000}
CraterDensities == {0, 1000, 2600, 3000, 8000}
CraterVelocities == {0, 1, 11, 16, 20, 40, 72}

\* energies in joules: 0, a negative one, m * 10^e, and the energies just
\* below and at the magnitudes 3, 5 and 7 (10^15.37, 10^18.37, 10^21.37 J)
Energies ==
    {Zero, Dec(-1, 3)}
        \cup {Dec(m, e) : m \in {1, 3}, e \in 0..MaxEnergyDecade}
        \cup {Dec(m, e) : m \in {2343, 2344}, e \in {12, 15, 18}}

\* energies in megatons (from 1e-10 up)
MegatonEnergies ==
    {Zero, Dec(-1, 0)}
        \cup {Dec(m, e - 10) : m \in {1, 3}, e \in 0..MaxEnergyDecade}

\* overpressure radii in tenths of a km, population densities per km2
Radii == 0..MaxRadiusTenths
PopulationDensities == {0, 1, 5, 50, 1000}

\* objects of the NASA feed: the diameter (metres) varies with the id and
\* the seed, and one object in five carries none
FeedObject(i, seed) ==
    [id |-> i,
     has_max |-> (i + seed) % 5 # 0,
     estimated_diameter_max |->
         IF (i + seed) % 5 # 0 THEN ((i * seed) % 11) * 100 ELSE 0]

\* n objects with the ids first, first + 1, ...
FeedGroup(first, n, seed) == [k \in 1..n |-> FeedObject(first + k - 1, seed)]

\* objects per date, and the seeds
DateCounts == {0, 2, 25, 40}
FeedSeeds == {1, 2, 3, 7}

\* "near_earth_objects" of /feed: the objects of two dates (or no such key)
Feeds ==
    {<<>>}
        \cup {<<FeedGroup(1, n1, seed), FeedGroup(n1 + 1, n2, seed)>> :
                  n1 \in DateCounts, n2 \in DateCounts, seed \in FeedSeeds}

\* "near_earth_objects" of /neo/browse with size = 20: one page
BrowsePages == {FeedGroup(1, n, seed) : n \in {0, 2, 20}, seed \in FeedSeeds}

\* outcomes of requests.get
NasaOutcomes == {"200", "429", "500", "timeout"}

AsteroidPaths == {"/api/asteroids", "/api/asteroids/potentially-hazardous"}
SimulationPaths == {"/api/simulation", "/api/simulation/presets"}

\* kinds of POST body
PostBodies ==
    {"no_content_length", "malformed_json", "array", "string_field", "object"}

---------------------------------------------------------------------------
(* The operations *)

Idle == call.fn = "none"

Init == call = NoCall /\ ret = NoRet /\ prev = NoPrev

\* a POST to the simulation endpoint
SimulateImpact ==
    /\ Idle
    /\ \E diameter \in ApiDiameters, velocity \in ApiVelocities,
          angle \in ApiAngles, density \in ApiDensities,
          target_is_water \in BOOLEAN :
          /\ call' = [NoCall EXCEPT !.fn = "simulate_impact",
                                    !.diameter = diameter,
                                    !.velocity = velocity,
                                    !.angle = angle,
                                    !.density = density,
                                    !.target_is_water = target_is_water]
          /\ ret' = simulate_impact(diameter, velocity, angle, density)
    /\ prev' = NoPrev

\* the same request once more with another entry angle
SimulateImpactAgain ==
    /\ call.fn = "simulate_impact"
    /\ prev = NoPrev
    /\ \E angle \in ApiAngles :
          /\ call' = [call EXCEPT !.angle = angle]
          /\ ret' = simulate_impact(call.diameter, call.velocity, angle,
                                    call.density)
    /\ prev' = [call |-> call, ret |-> ret]

CalculateImpactEnergy ==
    /\ Idle
    /\ \E size \in EnergySizes, density \in EnergyDensities,
          velocity \in EnergyVelocities, angle \in EnergyAngles :
          /\ call' = [NoCall EXCEPT !.fn = "calculate_impact_energy",
                                    !.size = size, !.density = density,
                                    !.velocity = velocity, !.angle = angle]
          /\ ret' = calculate_impact_energy(size, density, velocity, angle)
    /\ prev' = NoPrev

CalculateCraterSize ==
    /\ Idle
    /\ \E size \in CraterSizes, density \in CraterDensities,
          velocity \in CraterVelocities, is_water \in BOOLEAN :
          /\ call' = [NoCall EXCEPT !.fn = "calculate_crater_size",
                                    !.size = size, !.density = density,
                                    !.velocity = velocity,
                                    !.is_water = is_water]
          /\ ret' = calculate_crater_size(size, density, velocity, is_water)
    /\ prev' = NoPrev

\* the same projectile size and target once more, with another velocity and
\* density
CalculateCraterSizeAgain ==
    /\ call.fn = "calculate_crater_size"
    /\ ret.status = "ok"
    /\ prev = NoPrev
    /\ \E density \in CraterDensities, velocity \in CraterVelocities :
          /\ call' = [call EXCEPT !.density = density, !.velocity = velocity]
          /\ ret' = calculate_crater_size(call.size, density, velocity,
                                          call.is_water)
    /\ prev' = [call |-> call, ret |-> ret]

CalculateSeismicEffects ==
    /\ Idle
    /\ \E energy_joules \in Energies :
          /\ call' = [NoCall EXCEPT !.fn = "calculate_seismic_effects",
                                    !.energy = energy_joules]
          /\ ret' = calculate_seismic_effects(energy_joules)
    /\ prev' = NoPrev

\* the seismic stage once more, for another energy
CalculateSeismicEffectsAgain ==
    /\ call.fn = "calculate_seismic_effects"
    /\ ret.status = "ok"
    /\ prev = NoPrev
    /\ \E energy_joules \in Energies :
          /\ call' = [call EXCEPT !.energy = energy_joules]
          /\ ret' = calculate_seismic_effects(energy_joules)
    /\ prev' = [call |-> call, ret |-> ret]

CalculateTsunamiEffects ==
    /\ Idle
    /\ \E energy_mt \in MegatonEnergies :
          /\ call' = [NoCall EXCEPT !.fn = "calculate_tsunami_effects",
                                    !.energy = energy_mt]
          /\ ret' = calculate_tsunami_effects(energy_mt)
    /\ prev' = NoPrev

EstimateCasualties ==
    /\ Idle
    /\ \E r \in Radii, population_density \in PopulationDensities :
          /\ call' = [NoCall EXCEPT !.fn = "estimate_casualties",
                                    !.overpressure_radius = r,
                                    !.population_density = population_density]
          /\ ret' = estimate_casualties(r, population_density)
    /\ prev' = NoPrev

\* GET on the asteroid endpoints; the body NASA answers with matters only
\* for status 200
AsteroidsDoGet ==
    /\ Idle
    /\ \E path \in AsteroidPaths, nasa \in NasaOutcomes,
          feed \in Feeds, browse \in BrowsePages :
          /\ nasa = "200" /\ path \in HazardousPaths => feed = <<>>
          /\ nasa = "200" /\ path \notin HazardousPaths => browse = <<>>
          /\ nasa # "200" => feed = <<>> /\ browse = <<>>
          /\ call' = [NoCall EXCEPT !.fn = "asteroids.do_GET",
                                    !.path = path,
                                    !.nasa = nasa,
                                    !.feed = feed,
                                    !.browse = browse]
          /\ ret' = asteroids_do_GET(path, nasa, feed, browse)
    /\ prev' = NoPrev

\* GET on the simulation endpoint
SimulationDoGet ==
    /\ Idle
    /\ \E path \in SimulationPaths :
          /\ call' = [NoCall EXCEPT !.fn = "simulation.do_GET",
                                    !.path = path]
          /\ ret' = simulation_do_GET(path)
    /\ prev' = NoPrev

\* POST on the simulation endpoint; the fields matter only for a body that
\* is an object of numbers
SimulationDoPost ==
    /\ Idle
    /\ \E body \in PostBodies,
          diameter \in ApiDiameters, velocity \in ApiVelocities,
          angle \in ApiAngles, density \in ApiDensities :
          /\ body # "object" =>
                 /\ diameter = 0 /\ velocity = 0 /\ angle = 0
                 /\ density = 2600
          /\ call' = [NoCall EXCEPT !.fn = "simulation.do_POST",
                                    !.body = body,
                                    !.diameter = diameter,
                                    !.velocity = velocity,
                                    !.angle = angle,
                                    !.density = density]
          /\ ret' = do_POST(body, diameter, velocity, angle, density)
    /\ prev' = NoPrev

\* the invocation is over; nothing of it is kept
Return ==
    /\ ~Idle
    /\ call' = NoCall /\ ret' = NoRet /\ prev' = NoPrev

Next ==
    \/ SimulateImpact
    \/ SimulateImpactAgain
    \/ CalculateImpactEnergy
    \/ CalculateCraterSize
    \/ CalculateCraterSizeAgain
    \/ CalculateSeismicEffects
    \/ CalculateSeismicEffectsAgain
    \/ CalculateTsunamiEffects
    \/ EstimateCasualties
    \/ AsteroidsDoGet
    \/ SimulationDoGet
    \/ SimulationDoPost
    \/ Return

Spec == Init /\ [][Next]_vars


---------------------------------------------------------------------------
(* The claims *)

IsSimulate == call.fn = "simulate_impact"
IsCrater == call.fn = "calculate_crater_size"
IsSeismic == call.fn = "calculate_seismic_effects"
IsCasualties == call.fn = "estimate_casualties"
IsEnergy == call.fn = "calculate_impact_energy"

\* C1: a request with diameter <= 0, velocity <= 0 or an entry angle outside
\* (0, 90] is rejected with InvalidParameter before any stage runs and gets
\* no result value; likewise a crater computation for a size <= 0.
C1_InvalidRejected ==
    /\ (IsSimulate /\ (\/ call.diameter <= 0
                       \/ call.velocity <= 0
                       \/ call.angle <= 0
                       \/ call.angle > 90))
          => (ret.status = "InvalidParameter" /\ ret.results = {})
    /\ (IsCrater /\ call.size <= 0) => ret.status = "InvalidParameter"

\* the tsunami outputs, by the names calculate_tsunami_effects gives them
TsunamiOutputs == {"wave_height", "affected_radius"}

\* C2: a simulation result holds tsunami outputs if and only if the target
\* is water.
C2_TsunamiIffWater ==
    (IsSimulate /\ ret.status = "ok")
        => ((ret.results \cap TsunamiOutputs # {}) <=> call.target_is_water)

\* C3: the Chicxulub preset (10000 m, 20 km/s, 60 degrees, 2600 kg/m3)
\* yields at least 1e8 megatons and the class "Mass extinction event".
C3_ChicxulubIsMassExtinction ==
    (/\ IsSimulate
     /\ call.diameter = 10000 /\ call.velocity = 20
     /\ call.angle = 60 /\ call.density = 2600)
        => /\ Leq(Num(100000000), ret.energy_megatons)
           /\ ret.impact_classification = "Mass extinction event"

\* C4: calculate_seismic_effects returns, without a domain fault, a
\* magnitude in [0, 10] (thousandths: 0..10000) for every energy, and
\* magnitude 0 for every energy <= 0.
C4_MagnitudeBounded ==
    IsSeismic
        => /\ ret.status = "ok"
           /\ 0 <= ret.magnitude /\ ret.magnitude <= 10000
           /\ Leq(call.energy, Zero) => ret.magnitude = 0

\* the guard's case: a zero energy, answered with magnitude 0
C4_Witness ==
    IsSeismic /\ call.energy = Zero /\ ret.status = "ok" /\ ret.magnitude = 0

\* C5: for a positive size the crater diameter returned is at most 50 times
\* the projectile diameter (the final radius at most 50 projectile radii).
C5_CraterClamped ==
    (IsCrater /\ call.size > 0)
        => /\ ret.status = "ok"
           /\ Leq(ret.diameter, Mul(Num(50), Num(call.size)))

\* the rim-collapse factor 1.25 was applied and the clamp binds
C5_Witness ==
    /\ IsCrater /\ call.size > 0 /\ ret.status = "ok"
    /\ ret.collapse = "1.25"
    /\ Less(Mul(Div(Num(call.size), Num(2)), Num(50)),
            Mul(ret.transient_radius, Dec(125, -2)))
    /\ ret.diameter = Mul(Num(50), Num(call.size))

\* C6: estimate_casualties and the API result give non-negative integers
\* with estimated_casualties <= affected_population.
C6_CasualtiesWithinPopulation ==
    ((IsCasualties \/ IsSimulate) /\ ret.status = "ok")
        => /\ ret.estimated_casualties \in Nat
           /\ ret.affected_population \in Nat
           /\ ret.estimated_casualties <= ret.affected_population

\* a populated zone: some are affected and fewer are casualties
C6_Witness ==
    /\ IsCasualties /\ call.overpressure_radius > 0
    /\ call.population_density > 0
    /\ ret.affected_population > 0
    /\ ret.estimated_casualties < ret.affected_population

\* round(num / den) of Python for num >= 0, den > 0: to nearest, a tie to
\* the even neighbour
RoundHalfEven(num, den) ==
    LET q == num \div den
        r == num % den
    IN  IF 2 * r < den THEN q
        ELSE IF 2 * r > den THEN q + 1
        ELSE IF q % 2 = 0 THEN q ELSE q + 1

\* pi * radius^2 * population_density as the fraction AreaNum / AreaDen, for
\* the radius in tenths of a km
AreaNum == PiNum * call.overpressure_radius * call.overpressure_radius
               * call.population_density
AreaDen == PiDen * 100

\* damage_radius_km^2 * pi * 1000 of the API result
ApiArea == Mul(Mul(PowInt(ret.damage_radius_km, 2), Pi), Num(1000))

\* C7 as stated: affected_population is pi r^2 d rounded to the nearest
\* integer and estimated_casualties is half of it rounded to the nearest
\* (for the API, on requests with valid parameters).
C7_Rounded ==
    /\ IsCasualties
          => /\ ret.affected_population = RoundHalfEven(AreaNum, AreaDen)
             /\ ret.estimated_casualties
                    = RoundHalfEven(ret.affected_population, 2)
    /\ (IsSimulate /\ call.diameter > 0 /\ call.velocity > 0
                    /\ 0 < call.angle /\ call.angle <= 90)
          => ret.estimated_casualties
                 = RoundHalfEven(ret.affected_population, 2)

\* C7 amended: both are truncated.  affected_population is the largest
\* integer not above pi r^2 d, estimated_casualties the largest integer not
\* above half of affected_population (an odd affected_population is halved
\* and truncated); in the API result the area is damage_radius_km^2 pi 1000.
C7_Truncated ==
    /\ IsCasualties
          => /\ ret.affected_population * AreaDen <= AreaNum
             /\ AreaNum < (ret.affected_population + 1) * AreaDen
             /\ 2 * ret.estimated_casualties <= ret.affected_population
             /\ ret.affected_population < 2 * ret.estimated_casualties + 2
    /\ IsSimulate
          => /\ Leq(Num(ret.affected_population), ApiArea)
             /\ Less(ApiArea, Num(ret.affected_population + 1))
             /\ 2 * ret.estimated_casualties <= ret.affected_population
             /\ ret.affected_population < 2 * ret.estimated_casualties + 2

\* an area whose fraction is above one half, and an odd affected_population:
\* rounding would give other values for both
C7_Witness ==
    /\ IsCasualties
    /\ 2 * (AreaNum % AreaDen) > AreaDen
    /\ ret.affected_population % 2 = 1
    /\ ret.affected_population = AreaNum \div AreaDen
    /\ 2 * ret.estimated_casualties + 1 = ret.affected_population

\* the same request as before but for the entry angle
SameButAngle ==
    /\ IsSimulate /\ prev.call.fn = "simulate_impact"
    /\ call.diameter = prev.call.diameter
    /\ call.density = prev.call.density
    /\ call.velocity = prev.call.velocity

\* C8: with diameter, density and velocity fixed, the energy of a simulation
\* strictly decreases as the entry angle decreases from 90 towards 0.
C8_EnergyDecreasesWithAngle ==
    (/\ SameButAngle
     /\ call.diameter > 0 /\ call.velocity > 0
     /\ 0 < call.angle /\ call.angle < prev.call.angle
     /\ prev.call.angle <= 90)
        => Less(ret.energy_megatons, prev.ret.energy_megatons)

\* C9: the ablation fraction (hundredths) is a step function of the size
\* alone: 0.9 below 50, 0.7 from 50 to below 100, 0.3 from 100 to below 500,
\* 0.1 from 500 on.
C9_AblationBands ==
    IsEnergy
        => /\ ret.status = "ok"
           /\ call.size < 50 => ret.ablation_fraction = 90
           /\ (50 <= call.size /\ call.size < 100) => ret.ablation_fraction = 70
           /\ (100 <= call.size /\ call.size < 500) => ret.ablation_fraction = 30
           /\ 500 <= call.size => ret.ablation_fraction = 10

\* a band limit falls in the band above it
C9_Witness ==
    IsEnergy /\ call.size = 500 /\ ret.ablation_fraction = 10

\* two crater computations for the same size and target, the second with a
\* velocity and a density not below the first's
CraterRaised ==
    /\ IsCrater /\ prev.call.fn = "calculate_crater_size"
    /\ ret.status = "ok" /\ prev.ret.status = "ok"
    /\ call.size = prev.call.size /\ call.is_water = prev.call.is_water
    /\ prev.call.velocity <= call.velocity
    /\ prev.call.density <= call.density

\* C10: with size and target fixed, the crater diameter does not decrease
\* when the velocity and the density do not.
C10_CraterMonotone ==
    CraterRaised => Leq(prev.ret.diameter, ret.diameter)

\* the pair crosses the regime switch and the clamp starts to bind: a simple
\* unclamped crater before, a complex clamped one after
C10_Witness ==
    /\ CraterRaised
    /\ prev.ret.collapse = "1.0" /\ ret.collapse = "1.25"
    /\ Less(prev.ret.diameter, Mul(Num(50), Num(call.size)))
    /\ ret.diameter = Mul(Num(50), Num(call.size))
    /\ Less(Mul(Num(25), Num(call.size)),
            Mul(ret.transient_radius, Dec(125, -2)))

\* two seismic computations, the second with a magnitude not below the
\* first's
SeismicRaised ==
    /\ IsSeismic /\ prev.call.fn = "calculate_seismic_effects"
    /\ ret.status = "ok" /\ prev.ret.status = "ok"
    /\ prev.ret.magnitude <= ret.magnitude

\* C13: the felt radius (thousandths of a km) does not decrease when the
\* magnitude does not, across the regime limits 3, 5 and 7; it lies in
\* [10, 1500] km; and in the top regime it is 300 * (magnitude - 5), the cap
\* of 2000 km never being the smaller value.
C13_FeltRadiusMonotone ==
    /\ SeismicRaised => prev.ret.radius <= ret.radius
    /\ (IsSeismic /\ ret.status = "ok")
          => /\ 10 * 1000 <= ret.radius /\ ret.radius <= 1500 * 1000
             /\ ret.magnitude >= 7000
                   => /\ ret.radius = 300 * (ret.magnitude - 5000)
                      /\ ret.radius < 2000 * 1000

\* the pair steps from the regime [5, 7) onto the limit 7 itself
C13_Witness ==
    /\ SeismicRaised
    /\ 5000 <= prev.ret.magnitude /\ prev.ret.magnitude < 7000
    /\ prev.ret.radius = 100 * (prev.ret.magnitude - 3000)
    /\ ret.magnitude = 7000
    /\ ret.radius = 600 * 1000

\* the final radius before the clamp, from the values returned: the
\* transient radius times the factor applied
CollapsedRadius ==
    Mul(ret.transient_radius,
        IF ret.collapse = "1.25" THEN Dec(125, -2) ELSE Dec(10, -1))

\* the clamp does not bind: the collapsed radius is within 50 projectile radii
ClampIdle ==
    /\ IsCrater /\ call.size > 0 /\ ret.status = "ok"
    /\ Leq(CollapsedRadius, Mul(Div(Num(call.size), Num(2)), Num(50)))

\* C14: when the clamp does not bind, the depth is diameter / 8 exactly when
\* the factor 1.25 was applied and diameter / 5 exactly when 1.0 was (for a
\* diameter above 0, where the two quotients differ), and the diameter is
\* not in (4000, 5000]; in every case depth <= diameter / 5.
C14_RegimesAgree ==
    /\ (ClampIdle /\ Less(Zero, ret.diameter))
          => /\ ret.depth = Div(ret.diameter, Num(8)) <=> ret.collapse = "1.25"
             /\ ret.depth = Div(ret.diameter, Num(5)) <=> ret.collapse = "1.0"
             /\ ~(Less(Num(4000), ret.diameter) /\ Leq(ret.diameter, Num(5000)))
    /\ (IsCrater /\ ret.status = "ok")
          => Leq(ret.depth, Div(ret.diameter, Num(5)))

\* an unclamped complex crater: factor 1.25, depth diameter / 8, diameter
\* above 5000 m
C14_Witness ==
    /\ ClampIdle
    /\ ret.collapse = "1.25"
    /\ Less(Num(5000), ret.diameter)
    /\ ret.diameter = Mul(CollapsedRadius, Num(2))
    /\ ret.depth = Div(ret.diameter, Num(8))

\* a GET of the listing that NASA answered with status 200
IsListing ==
    /\ call.fn = "asteroids.do_GET"
    /\ call.path \notin HazardousPaths
    /\ call.nasa = "200"

\* how many objects of the list have a key of at least size
AtLeast(asteroids, size) ==
    Cardinality({i \in DOMAIN asteroids : SizeKey(asteroids[i]) >= size})

\* how often x occurs in the list
Occurrences(asteroids, x) ==
    Cardinality({i \in DOMAIN asteroids : asteroids[i] = x})

\* C11: on a 200 answer of the feed the listing holds min(50, n) of the n
\* objects of all dates, each an object of the feed (no more often than
\* there), largest key first with a missing diameter counting as 0, and
\* they are the largest: for every size, the listing holds as many objects
\* of at least that size as the feed does, up to 50.
C11_ListingLargestFirst ==
    IsListing =>
        LET flat == Flatten(call.feed)
            listed == ret.asteroids
        IN  /\ ret.status = "ok" /\ ret.sent = <<200>>
            /\ Len(listed) = IMin(ListLimit, Len(flat))
            /\ \A i \in 1..(Len(listed) - 1) :
                   SizeKey(listed[i]) >= SizeKey(listed[i + 1])
            /\ \A i \in DOMAIN listed :
                   /\ Occurrences(listed, listed[i])
                          <= Occurrences(flat, listed[i])
                   /\ listed[i].has_max \/ SizeKey(listed[i]) = 0
            /\ \A j \in DOMAIN flat :
                   AtLeast(listed, SizeKey(flat[j]))
                       = IMin(ListLimit, AtLeast(flat, SizeKey(flat[j])))

\* two dates with objects, more than 50 in all and not in order of size;
\* 50 are listed, from a larger to a smaller one, and left out are an object
\* without a diameter and an object of the first date with one above 0
C11_Witness ==
    /\ IsListing
    /\ Len(call.feed) = 2 /\ call.feed[1] # <<>> /\ call.feed[2] # <<>>
    /\ ret.count > ListLimit
    /\ Len(ret.asteroids) = ListLimit
    /\ SizeKey(ret.asteroids[1]) > SizeKey(ret.asteroids[ListLimit])
    /\ SizeKey(call.feed[1][1]) < SizeKey(call.feed[1][2])
    /\ \E j \in DOMAIN call.feed[2] :
           /\ ~call.feed[2][j].has_max
           /\ Occurrences(ret.asteroids, call.feed[2][j]) = 0
    /\ \E j \in DOMAIN call.feed[1] :
           /\ SizeKey(call.feed[1][j]) > 0
           /\ Occurrences(ret.asteroids, call.feed[1][j]) = 0

\* a request to one of the HTTP entry points
IsRequest ==
    call.fn \in {"asteroids.do_GET", "simulation.do_GET", "simulation.do_POST"}

\* C12: every GET or POST request gets exactly one status, 200 when the
\* processing succeeds and 500 when it raises; no 500 follows a 200.
C12_OneStatus ==
    IsRequest =>
        /\ Len(ret.sent) = 1
        /\ ret.status = "ok" <=> ret.sent = <<200>>
        /\ ret.status # "ok" <=> ret.sent = <<500>>
        /\ \A i \in DOMAIN ret.sent, j \in DOMAIN ret.sent :
               i < j => ~(ret.sent[i] = 200 /\ ret.sent[j] = 500)

=============================================================================
